---- MODULE Spec2Model ----
(***************************************************************************)
(* Model of the UPF service agent (upfserviceagent): the MatchMap handler  *)
(* that mirrors each match into the Click UPF element's match table and    *)
(* into the kernel NAT chain "UPF", the Click control-socket client it     *)
(* uses, and the agent's inbound command handlers.                         *)
(*                                                                         *)
(* The Click element and the kernel are the environment.  The Click match  *)
(* table is a position-indexed list that changes only when a write is      *)
(* answered with status 200; the kernel chain is the list python-iptables  *)
(* exposes as Chain.rules.                                                 *)
(***************************************************************************)
EXTENDS Integers, Sequences, FiniteSets, TLC

VARIABLES
    engine,       \* Click UPF match table: sequence of selectors
    kernel,       \* rules of the NAT chain "UPF" (MatchMap.upf_chain.rules)
    chainExists,  \* whether the chain "UPF" exists in the NAT table
    prerouting,   \* rules of the NAT chain PREROUTING
    mmStop,       \* MatchMap._stop
    pc,           \* position of the main thread
    slept,        \* seconds of the sleep the main thread is in (0: not sleeping)
    lastOp,       \* the last MatchMap call: what was asked, what Click did, how it ended
    wire,         \* command lines the last MatchMap call sent to Click
    sent,         \* messages the last handled inbound message sent to the manager
    before,       \* both stores as they were when the last handled message arrived
    thr,          \* concurrent callers of add_matchmap: position and argument
    admitted,     \* concurrent callers in the order their call began its first write
    conc0,        \* the stores when the concurrent callers were started
    delivered,    \* the last inbound message: its type, the exception that left on_message
    mainPc,       \* position of main() in its connection loop
    agentStop,    \* UPFServiceAgent._stop
    helloPc,      \* position of the thread running _send_periodic_hello
    pollPc,       \* position of the thread running _uemap_poller
    sock,         \* the Click control-socket call in progress
    inflight,     \* inbound-message handlers that have started and not yet returned
    sending       \* callers that are inside WebSocketApp.send

\* the threads of the running agent and the control-socket call
loopVars == <<mainPc, agentStop, helloPc, pollPc, sock, inflight, sending>>

vars == <<engine, kernel, chainExists, prerouting, mmStop, pc, slept,
          lastOp, wire, sent, before, thr, admitted, conc0, delivered, loopVars>>

----------------------------------------------------------------------------
(* Bounds *)

MaxLen == 3        \* longest match table explored
MaxStale == 1      \* longest table left behind by a previous run
MaxPre == 2        \* longest PREROUTING chain found at startup

----------------------------------------------------------------------------
(* Program constants *)

PT_MATCH_OK == "match_ok"
PT_MATCH_KO == "match_ko"
PT_MATCH_ADD == "match_add"
PT_MATCH_DELETE == "match_delete"
\* agent.py imports this name; the package does not define it.  The model
\* lets the name resolve to a message type of its own.
PT_MATCH_ACTION_RESULT == "match_action_result"

UPF_SERVICE_UE_SUBNET == "10.0.0.0/8"
UPF_SERVICE_MANAGER_EVERY == 5
ClickRetrySleep == 5
BANNER == "Click::ControlSocket/1.3\n"

\* MatchMap._prot_port_supp
prot_port_supp == (6 :> "tcp") @@ (17 :> "udp") @@ (132 :> "sctp")

----------------------------------------------------------------------------
(* Input domains *)

\* The matches the manager sends, but for their index:
\*   TCP to 5.5.5.5/32 port 80, passed through;
\*   TCP to 5.5.5.5/32, any port, rewritten to 9.9.9.9:8080;
\*   ICMP (no port-match extension) to 5.5.5.5/32 naming port 80.
MatchShapes ==
    {[index |-> 0, ip_proto_num |-> 6, dst_ip |-> "5.5.5.5", netmask |-> "32",
      dst_port |-> 80, new_dst_ip |-> "", new_dst_port |-> 0],
     [index |-> 0, ip_proto_num |-> 6, dst_ip |-> "5.5.5.5", netmask |-> "32",
      dst_port |-> 0, new_dst_ip |-> "9.9.9.9", new_dst_port |-> 8080],
     [index |-> 0, ip_proto_num |-> 1, dst_ip |-> "5.5.5.5", netmask |-> "32",
      dst_port |-> 80, new_dst_ip |-> "", new_dst_port |-> 0]}

Matches == {[s EXCEPT !.index = i] : s \in MatchShapes, i \in 0..MaxLen}

\* a match as the manager is meant to send it
ValidMatch(m) == m.ip_proto_num \in DOMAIN prot_port_supp

DeleteIndexes == -2..MaxLen

\* What the Click control socket does on one connection.
Banners == {BANNER, "Click::ControlSocket/1.1\n"}
StatusCodes == {200, 520}
\* (no banner is read on a refused connection, no status after a wrong banner)
Servers ==
    {s \in [connect : BOOLEAN, banner : Banners, status : StatusCodes] :
        /\ ~s.connect => s.banner = BANNER
        /\ (~s.connect \/ s.banner # BANNER) => s.status = 520}

----------------------------------------------------------------------------
(* Sequences as Python lists / iptables chains (positions from 0) *)

InsertAt(s, i, x) == SubSeq(s, 1, i) \o <<x>> \o SubSeq(s, i + 1, Len(s))

RemoveAt(s, i) == SubSeq(s, 1, i) \o SubSeq(s, i + 2, Len(s))

\* list[i] in Python: negative i counts from the end; IndexError otherwise
PyInRange(s, i) == (-Len(s)) <= i /\ i < Len(s)
PyIndex(s, i) == IF i < 0 THEN s[Len(s) + i + 1] ELSE s[i + 1]

\* Chain.delete_rule(rule) hands the rule, not a position, to libiptc,
\* which deletes the first rule of the chain equal to it.
FirstPos(s, r) == CHOOSE k \in 1..Len(s) : s[k] = r /\ \A j \in 1..(k - 1) : s[j] # r
delete_rule(s, r) == RemoveAt(s, FirstPos(s, r) - 1)

SeqsUpTo(S, n) == UNION {[1..k -> S] : k \in 0..n}

----------------------------------------------------------------------------
(* handlers/click.py *)

\* The command line "write <element>.<handler> <value>\n", as the pair that
\* distinguishes one command from another.
WriteCmd(handler, value) == <<"write", handler, value>>

\* write_handler on a connection that behaves as srv: what it raises or
\* returns, and the command lines it sent.
write_handler(srv, handler, value) ==
    IF ~srv.connect
    THEN [raised |-> "OSError", status |-> 0, cmds |-> <<>>]
    ELSE IF srv.banner # BANNER
    THEN [raised |-> "ValueError", status |-> 0, cmds |-> <<>>]
    ELSE [raised |-> "none", status |-> srv.status,
          cmds |-> <<WriteCmd(handler, value)>>]

----------------------------------------------------------------------------
(* The Click UPF element's match table, behind the control socket *)

\* upf_service_match: "<index>,<proto>-<dst_ip>/<netmask>-<dst_port>"
upf_service_match(match) ==
    <<match.index, match.ip_proto_num, match.dst_ip, match.netmask, match.dst_port>>

\* the selector the element stores for an encoded match
ClickSelector(value) == <<value[2], value[3], value[4], value[5]>>

\* whether the element can carry out the write (and so answer 200)
ClickAccepts(eng, handler, value) ==
    CASE handler = "matchmapinsert" -> value[1] >= 0 /\ value[1] <= Len(eng)
      [] handler = "matchmapdelete" -> value >= 0 /\ value < Len(eng)
      [] OTHER -> TRUE

\* the table after a write the element answered with 200
ClickApply(eng, handler, value) ==
    CASE handler = "matchmapinsert" -> InsertAt(eng, value[1], ClickSelector(value))
      [] handler = "matchmapdelete" -> RemoveAt(eng, value)
      [] OTHER -> <<>>

\* the table after write_handler ran against srv with result w
ClickAfter(eng, w, handler, value) ==
    IF w.raised = "none" /\ w.status = 200 THEN ClickApply(eng, handler, value) ELSE eng

\* the element answers 200 only to a write it can carry out
ServerFor(eng, handler, value) ==
    {srv \in Servers : srv.status = 200 => ClickAccepts(eng, handler, value)}

----------------------------------------------------------------------------
(* handlers/matchmap.py *)

NoTarget == [name |-> "", to_destination |-> <<>>]

_get_base_rule(match) ==
    IF match.dst_port # 0 /\ match.ip_proto_num \notin DOMAIN prot_port_supp
    THEN [raised |-> "KeyError", rule |-> <<>>]
    ELSE [raised |-> "none",
          rule |-> [protocol |-> match.ip_proto_num,
                    dst |-> <<match.dst_ip, match.netmask>>,
                    matches |-> IF match.dst_port # 0
                                THEN <<[name |-> prot_port_supp[match.ip_proto_num],
                                        dport |-> match.dst_port]>>
                                ELSE <<>>,
                    target |-> NoTarget]]

\* Chain.insert_rule(rule, position): libiptc refuses a position past the end
insert_rule(kern, rule, position) ==
    IF position >= 0 /\ position <= Len(kern)
    THEN [raised |-> "none", kernel |-> InsertAt(kern, position, rule)]
    ELSE [raised |-> "IPTCError", kernel |-> kern]

_add_rewrite_rule(kern, match) ==
    LET b == _get_base_rule(match)
        dest == IF match.new_dst_port # 0
                THEN <<match.new_dst_ip, match.new_dst_port>>
                ELSE <<match.new_dst_ip>>
    IN  IF b.raised # "none" THEN [raised |-> b.raised, kernel |-> kern]
        ELSE insert_rule(kern,
                 [b.rule EXCEPT !.target = [name |-> "DNAT", to_destination |-> dest]],
                 match.index)

_add_dummy_rule(kern, match) ==
    LET b == _get_base_rule(match)
    IN  IF b.raised # "none" THEN [raised |-> b.raised, kernel |-> kern]
        ELSE insert_rule(kern,
                 [b.rule EXCEPT !.target = [name |-> "ACCEPT", to_destination |-> <<>>]],
                 match.index)

\* add_matchmap, first half: the matchmapinsert write and the status check
add_engine_write(match, srv, eng) ==
    LET value == upf_service_match(match)
        w == write_handler(srv, "matchmapinsert", value)
    IN  [engine |-> ClickAfter(eng, w, "matchmapinsert", value),
         exc |-> IF w.raised # "none" THEN w.raised
                 ELSE IF w.status # 200 THEN "Exception" ELSE "none",
         cmds |-> w.cmds]

\* add_matchmap, second half: the kernel rule
add_kernel_insert(match, kern) ==
    IF match.new_dst_ip # "" THEN _add_rewrite_rule(kern, match)
    ELSE _add_dummy_rule(kern, match)

\* add_matchmap without "if status != 200: raise": the kernel rule is
\* inserted whenever the write returned, whatever its status
add_matchmap_unchecked(match, srv, eng, kern) ==
    LET e == add_engine_write(match, srv, eng)
        k == add_kernel_insert(match, kern)
    IN  IF e.exc \notin {"none", "Exception"}
        THEN [engine |-> e.engine, kernel |-> kern, exc |-> e.exc, cmds |-> e.cmds]
        ELSE [engine |-> e.engine, kernel |-> k.kernel, exc |-> k.raised,
              cmds |-> e.cmds]

\* add_matchmap(match) with Click behaving as srv: the two stores afterwards,
\* the exception raised ("none": returned) and the commands sent
add_matchmap(match, srv, eng, kern) ==
    LET e == add_engine_write(match, srv, eng)
        k == add_kernel_insert(match, kern)
    IN  IF e.exc # "none"
        THEN [engine |-> e.engine, kernel |-> kern, exc |-> e.exc, cmds |-> e.cmds]
        ELSE [engine |-> e.engine, kernel |-> k.kernel, exc |-> k.raised,
              cmds |-> e.cmds]

\* delete_matchmap whose -1 branch sends matchmapclear without flushing the
\* kernel chain
delete_matchmap_noflush(match_index, srv, eng, kern) ==
    LET handler_name == IF match_index # -1 THEN "matchmapdelete" ELSE "matchmapclear"
        kern1 == IF match_index # -1
                 THEN delete_rule(kern, PyIndex(kern, match_index))
                 ELSE kern
        w == write_handler(srv, handler_name, match_index)
        eng1 == ClickAfter(eng, w, handler_name, match_index)
    IN  IF match_index # -1 /\ ~PyInRange(kern, match_index)
        THEN [engine |-> eng, kernel |-> kern, exc |-> "IndexError", cmds |-> <<>>]
        ELSE IF w.raised # "none"
        THEN [engine |-> eng1, kernel |-> kern1, exc |-> w.raised, cmds |-> w.cmds]
        ELSE IF w.status # 200
        THEN [engine |-> eng1, kernel |-> kern1, exc |-> "Exception", cmds |-> w.cmds]
        ELSE [engine |-> eng1, kernel |-> kern1, exc |-> "none", cmds |-> w.cmds]

\* delete_matchmap(match_index) with Click behaving as srv
delete_matchmap(match_index, srv, eng, kern) ==
    LET handler_name == IF match_index # -1 THEN "matchmapdelete" ELSE "matchmapclear"
        kern1 == IF match_index # -1
                 THEN delete_rule(kern, PyIndex(kern, match_index))
                 ELSE <<>>
        w == write_handler(srv, handler_name, match_index)
        eng1 == ClickAfter(eng, w, handler_name, match_index)
    IN  IF match_index # -1 /\ ~PyInRange(kern, match_index)
        THEN [engine |-> eng, kernel |-> kern, exc |-> "IndexError", cmds |-> <<>>]
        ELSE IF w.raised # "none"
        THEN [engine |-> eng1, kernel |-> kern1, exc |-> w.raised, cmds |-> w.cmds]
        ELSE IF w.status # 200
        THEN [engine |-> eng1, kernel |-> kern1, exc |-> "Exception", cmds |-> w.cmds]
        ELSE [engine |-> eng1, kernel |-> kern1, exc |-> "none", cmds |-> w.cmds]

----------------------------------------------------------------------------
(* State left behind by a previous run, found at startup *)

StaleSelectors == {<<6, "5.5.5.5", "32", 80>>}

StaleRules ==
    {[protocol |-> 6, dst |-> <<"5.5.5.5", "32">>,
      matches |-> <<[name |-> "tcp", dport |-> 80]>>,
      target |-> [name |-> "DNAT", to_destination |-> <<"9.9.9.9">>]]}

\* rules PREROUTING may hold: jumps to UPF from an earlier run (with the
\* same or another UE subnet) and a rule that is not the agent's
PreRules ==
    {[src |-> UPF_SERVICE_UE_SUBNET, target |-> "UPF"],
     [src |-> "192.168.0.0/16", target |-> "UPF"],
     [src |-> "0.0.0.0/0", target |-> "MASQUERADE"]}

OkServer == [connect |-> TRUE, banner |-> BANNER, status |-> 200]
NoOp == [op |-> "none", index |-> -1, valid |-> FALSE, exc |-> "none", srv |-> OkServer]
NoSnapshot == [engine |-> <<>>, kernel |-> <<>>]
Threads == {1, 2}
NoThreads == [t \in Threads |-> [pc |-> "off", match |-> CHOOSE m \in Matches : TRUE]]
NoMessage == [type |-> "none", exc |-> "none"]
NoSock ==
    [pc |-> "closed", op |-> "none", handler |-> "", connect |-> FALSE, rest |-> <<>>,
     payload |-> <<>>, first |-> <<>>, line |-> <<>>, cmds |-> <<>>, after |-> 0,
     turns |-> 0, raised |-> "none", status |-> 0, data |-> <<>>]

\* nothing delivered yet, the periodic threads not started, no call in progress
AgentIdle ==
    /\ delivered = NoMessage
    /\ mainPc = "run_forever"
    /\ agentStop = FALSE
    /\ helloPc = "off"
    /\ pollPc = "off"
    /\ sock = NoSock
    /\ inflight = <<>>
    /\ sending = {}

\* MatchMap.__init__ and UPFServiceAgent.__init__ up to _init_upf_service
Init ==
    /\ engine \in SeqsUpTo(StaleSelectors, MaxStale)
    /\ chainExists \in BOOLEAN
    /\ kernel \in (IF chainExists THEN SeqsUpTo(StaleRules, MaxStale) ELSE {<<>>})
    /\ prerouting \in {p \in SeqsUpTo(PreRules, MaxPre) :
                          \A i, j \in 1..Len(p) : p[i] = p[j] => i = j}
    /\ mmStop = FALSE
    /\ pc = "init_click"
    /\ slept = 0
    /\ lastOp = NoOp
    /\ wire = <<>>
    /\ sent = <<>>
    /\ before = NoSnapshot
    /\ thr = NoThreads
    /\ admitted = <<>>
    /\ conc0 = NoSnapshot
    /\ AgentIdle

----------------------------------------------------------------------------
(* MatchMap.start *)

\* one iteration of the loop of _init_click_upf: the matchmapclear write
\* returned (break) or raised (log, sleep 5)
InitClickAttempt(srv) ==
    LET w == write_handler(srv, "matchmapclear", "0") IN
    /\ pc = "init_click"
    /\ ~mmStop
    /\ engine' = ClickAfter(engine, w, "matchmapclear", "0")
    /\ wire' = w.cmds
    /\ pc' = IF w.raised = "none" THEN "init_netfilter" ELSE "init_click_sleep"
    /\ slept' = IF w.raised = "none" THEN 0 ELSE ClickRetrySleep
    /\ lastOp' = [op |-> "start_clear", index |-> -1, valid |-> TRUE,
                  exc |-> w.raised, srv |-> srv]
    /\ UNCHANGED <<loopVars, delivered, kernel, chainExists, prerouting, mmStop, sent,
                   before, thr, admitted, conc0>>

_init_click_upf_try == \E srv \in Servers : InitClickAttempt(srv)

\* time.sleep(5) is over: back to the loop condition
_init_click_upf_wake ==
    /\ pc = "init_click_sleep"
    /\ pc' = "init_click"
    /\ slept' = 0
    /\ UNCHANGED <<loopVars, delivered, engine, kernel, chainExists, prerouting, mmStop, lastOp, wire,
                   sent, before, thr, admitted, conc0>>

\* the loop condition "while not self._stop" fails
_init_click_upf_exit ==
    /\ pc = "init_click"
    /\ mmStop
    /\ pc' = "init_netfilter"
    /\ UNCHANGED <<loopVars, delivered, engine, kernel, chainExists, prerouting, mmStop, slept, lastOp,
                   wire, sent, before, thr, admitted, conc0>>

\* PREROUTING without the rules whose target is UPF
RECURSIVE WithoutUpf(_)
WithoutUpf(chain) ==
    IF chain = <<>> THEN <<>>
    ELSE IF Head(chain).target = "UPF" THEN WithoutUpf(Tail(chain))
    ELSE <<Head(chain)>> \o WithoutUpf(Tail(chain))

_init_netfilter ==
    /\ pc = "init_netfilter"
    /\ prerouting' = <<[src |-> UPF_SERVICE_UE_SUBNET, target |-> "UPF"]>>
                        \o WithoutUpf(prerouting)
    /\ chainExists' = TRUE
    /\ kernel' = <<>>
    /\ pc' = "serving"
    /\ UNCHANGED <<loopVars, delivered, engine, mmStop, slept, lastOp, wire, sent, before, thr,
                   admitted, conc0>>

\* MatchMap.stop(), called while start() is still running
MatchMapStop ==
    /\ pc \in {"init_click", "init_click_sleep", "init_netfilter"}
    /\ ~mmStop
    /\ mmStop' = TRUE
    /\ UNCHANGED <<loopVars, delivered, engine, kernel, chainExists, prerouting, pc, slept, lastOp, wire,
                   sent, before, thr, admitted, conc0>>

\* main(): KeyboardInterrupt in the connection loop -> agent.stop(); stop = True
\* (handlers run on the main thread, so none is in progress when the except
\* clause runs)
MainInterrupt ==
    /\ pc = "serving"
    /\ inflight = <<>>
    /\ agentStop' = TRUE
    /\ mmStop' = TRUE
    /\ pc' = "stopped"
    /\ UNCHANGED <<mainPc, helloPc, pollPc, sock, inflight, sending, delivered, engine, kernel, chainExists, prerouting, slept, lastOp, wire,
                   sent, before, thr, admitted, conc0>>

----------------------------------------------------------------------------
(* agent/agent.py: inbound messages *)

\* The header fields a JSON object from the manager carries besides "type":
\* all of them, all but "uuid", all but "version".
Envelopes == {"full", "no_uuid", "no_version"}

\* (has_match = FALSE: the payload has no "match"; the field is then unread,
\* as is the whole payload of a message whose header is incomplete)
AddMessages ==
    {msg \in [type : {PT_MATCH_ADD}, envelope : Envelopes, uuid : {"u1"},
              has_match : BOOLEAN, match : Matches] :
        /\ ~msg.has_match => msg.match = CHOOSE m \in Matches : m.index = 0
        /\ msg.envelope # "full" => ~msg.has_match}

DeleteMessages ==
    {msg \in [type : {PT_MATCH_DELETE}, envelope : Envelopes, uuid : {"u1"},
              has_match_index : BOOLEAN, match_index : DeleteIndexes] :
        /\ ~msg.has_match_index => msg.match_index = 0
        /\ msg.envelope # "full" => ~msg.has_match_index}

\* message types for which UPFServiceAgent has no _handle_<type> method
UnknownTypes == {"match_update"}

UnknownMessages == [type : UnknownTypes, envelope : Envelopes, uuid : {"u1"}]

\* hasattr(self, "_handle_%s" % msg['type'])
HasHandler(type) == type \in {PT_MATCH_ADD, PT_MATCH_DELETE}

\* dump_message(message): message['uuid'] and del message['version'] raise
\* KeyError when the key is absent
dump_message(message) == IF message.envelope = "full" THEN "none" ELSE "KeyError"

\* on_message: what leaves the callback when handle_message raised exc
\* (only ValueError is caught)
on_message(exc) == IF exc = "ValueError" THEN "none" ELSE exc

\* messages delivered as soon as the Click clear is over, while
\* _init_netfilter has still to run
DispatchingEarly == pc \in {"init_netfilter", "serving"}

\* main(): the agent is constructed (which runs MatchMap.start()) before
\* run_forever() starts to deliver messages to on_message
Dispatching == pc = "serving"

\* send_match_action_result -> send_message: the message put on the socket
send_match_action_result(match_index, status, uuid) ==
    [type |-> PT_MATCH_ACTION_RESULT, match_index |-> match_index,
     status |-> status, uuid |-> uuid]

\* a reply that carries the index of the payload whether or not the handler
\* got to read it
ReplyIndexUnset(was_read, requested) == requested

\* the local variable index when the finally clause runs: -1 from
\* "index = -1" until the assignment in the try statement replaced it
ReplyIndex(was_read, requested) == IF was_read THEN requested ELSE -1

\* the except clauses of _handle_match_add
AddStatus(exc) ==
    CASE exc = "none" -> 201
      [] exc = "KeyError" -> 404
      [] exc = "ValueError" -> 400
      [] OTHER -> 500

\* the finally clause of _handle_match_add
AddReply(index, status, uuid) ==
    IF status = 201 THEN send_match_action_result(index, status, uuid)
    ELSE send_match_action_result(index, 500, uuid)

\* the except clauses of _handle_match_delete
DeleteStatus(exc) ==
    CASE exc = "none" -> 204
      [] exc = "KeyError" -> 404
      [] OTHER -> 500

\* the finally clause of _handle_match_delete
DeleteReply(index, status, uuid) ==
    IF status = 204 THEN send_match_action_result(index, status, uuid)
    ELSE send_match_action_result(index, 500, uuid)

_handle_match_add(message, srv) ==
    /\ Dispatching
    /\ delivered' = [type |-> message.type, exc |-> on_message(dump_message(message))]
    /\ IF dump_message(message) # "none"
       THEN \* raised before the try statement: nothing is called, nothing sent
            /\ srv = CHOOSE s \in Servers : TRUE
            /\ sent' = <<>>
            /\ lastOp' = NoOp
            /\ wire' = <<>>
            /\ UNCHANGED <<engine, kernel>>
       ELSE IF ~message.has_match
       THEN \* message["match"] raises KeyError; index stays -1
            /\ srv = CHOOSE s \in Servers : TRUE
            /\ sent' = <<AddReply(ReplyIndex(FALSE, message.match.index),
                                  AddStatus("KeyError"), message.uuid)>>
            /\ lastOp' = NoOp
            /\ wire' = <<>>
            /\ UNCHANGED <<engine, kernel>>
       ELSE /\ srv \in ServerFor(engine, "matchmapinsert",
                                    upf_service_match(message.match))
            /\ \E r \in {add_matchmap(message.match, srv, engine, kernel)} :
                LET match == message.match
                    index == ReplyIndex(TRUE, match.index)
                IN
                /\ Len(r.engine) <= MaxLen
                /\ Len(r.kernel) <= MaxLen
                /\ engine' = r.engine
                /\ kernel' = r.kernel
                /\ wire' = r.cmds
                /\ sent' = <<AddReply(index, AddStatus(r.exc), message.uuid)>>
                /\ lastOp' = [op |-> "add", index |-> index,
                              valid |-> ValidMatch(match) /\ index <= Len(kernel)
                                           /\ index <= Len(engine),
                              exc |-> r.exc, srv |-> srv]
    /\ before' = [engine |-> engine, kernel |-> kernel]
    /\ UNCHANGED <<loopVars, chainExists, prerouting, mmStop, pc, slept, thr, admitted, conc0>>

_handle_match_delete(message, srv) ==
    /\ Dispatching
    /\ delivered' = [type |-> message.type, exc |-> on_message(dump_message(message))]
    /\ IF dump_message(message) # "none"
       THEN \* raised before the try statement: nothing is called, nothing sent
            /\ srv = CHOOSE s \in Servers : TRUE
            /\ sent' = <<>>
            /\ lastOp' = NoOp
            /\ wire' = <<>>
            /\ UNCHANGED <<engine, kernel>>
       ELSE IF ~message.has_match_index
       THEN \* message["match_index"] raises KeyError; index stays -1
            /\ srv = CHOOSE s \in Servers : TRUE
            /\ sent' = <<DeleteReply(ReplyIndex(FALSE, message.match_index),
                                     DeleteStatus("KeyError"), message.uuid)>>
            /\ lastOp' = NoOp
            /\ wire' = <<>>
            /\ UNCHANGED <<engine, kernel>>
       ELSE /\ srv \in ServerFor(engine,
                       IF message.match_index # -1 THEN "matchmapdelete"
                       ELSE "matchmapclear", message.match_index)
            \* no connection is opened when the index lookup raises
            /\ (message.match_index # -1 /\ ~PyInRange(kernel, message.match_index))
                   => srv = OkServer
            /\ \E r \in {delete_matchmap(message.match_index, srv, engine, kernel)} :
                LET index == ReplyIndex(TRUE, message.match_index) IN
                /\ engine' = r.engine
                /\ kernel' = r.kernel
                /\ wire' = r.cmds
                /\ sent' = <<DeleteReply(index, DeleteStatus(r.exc), message.uuid)>>
                /\ lastOp' = [op |-> "delete", index |-> index,
                              valid |-> index = -1 \/ (index >= 0 /\ index < Len(kernel)
                                                        /\ index < Len(engine)),
                              exc |-> r.exc, srv |-> srv]
    /\ before' = [engine |-> engine, kernel |-> kernel]
    /\ UNCHANGED <<loopVars, chainExists, prerouting, mmStop, pc, slept, thr, admitted, conc0>>

\* handle_message for a type without handler: a reply telling the manager so
handle_unknown_ko(msg) ==
    [sent |-> <<send_match_action_result(-1, 500, msg.uuid)>>, exc |-> "none"]

\* handle_message for a type without handler: logging.info(...); return
handle_unknown(msg) == [sent |-> <<>>, exc |-> "none"]

HandleUnknown ==
    \E msg \in UnknownMessages :
        /\ Dispatching
        /\ ~HasHandler(msg.type)
        /\ delivered' = [type |-> msg.type, exc |-> on_message(handle_unknown(msg).exc)]
        /\ sent' = handle_unknown(msg).sent
        /\ lastOp' = NoOp
        /\ wire' = <<>>
        /\ before' = [engine |-> engine, kernel |-> kernel]
        /\ UNCHANGED <<loopVars, engine, kernel, chainExists, prerouting, mmStop, pc,
                       slept, thr, admitted, conc0>>

\* handle_message: dispatch on msg['type']
HandleMatchAdd == \E message \in AddMessages, srv \in Servers : _handle_match_add(message, srv)

HandleMatchDelete ==
    \E message \in DeleteMessages, srv \in Servers : _handle_match_delete(message, srv)

\* (main() can call stop() only once the constructor has returned, so the
\* startup loop never sees _stop set here; SpecStart covers that exit)
Next ==
    \/ _init_click_upf_try
    \/ _init_click_upf_wake
    \/ _init_netfilter
    \/ MainInterrupt
    \/ HandleMatchAdd
    \/ HandleMatchDelete
    \/ HandleUnknown

\* The agent program: main() constructs the agent, then serves.  It starts on
\* a machine where a previous run left a match in each store and its jump in
\* PREROUTING, behind a rule that is not the agent's.
InitAgent ==
    /\ Init
    /\ engine = <<CHOOSE s \in StaleSelectors : TRUE>>
    /\ chainExists
    /\ kernel = <<CHOOSE r \in StaleRules : TRUE>>
    /\ prerouting = <<[src |-> "0.0.0.0/0", target |-> "MASQUERADE"],
                      [src |-> UPF_SERVICE_UE_SUBNET, target |-> "UPF"]>>

Spec == InitAgent /\ [][Next]_vars

\* MatchMap.start() on its own, with stop() callable from another thread.
NextStart ==
    \/ _init_click_upf_try
    \/ _init_click_upf_wake
    \/ _init_click_upf_exit
    \/ _init_netfilter
    \/ MatchMapStop

SpecStart == Init /\ [][NextStart]_vars

----------------------------------------------------------------------------
(* Two threads calling add_matchmap on one MatchMap.  MatchMap holds no     *)
(* lock: a call is its Click write followed by its kernel insert, and the   *)
(* other thread may run between the two.                                    *)

MaxBase == 1       \* longest table the concurrent callers start from

\* the stores after add_matchmap(match) when nothing fails
SerialAdd(stores, match) ==
    LET r == add_matchmap(match, OkServer, stores.engine, stores.kernel)
    IN  [engine |-> r.engine, kernel |-> r.kernel]

\* the stores reachable from empty ones by at most n successful calls
RECURSIVE SyncedStores(_)
SyncedStores(n) ==
    IF n = 0 THEN {NoSnapshot}
    ELSE LET prev == SyncedStores(n - 1)
         IN  prev \cup {SerialAdd(s, m) : s \in prev,
                           m \in {x \in Matches : ValidMatch(x) /\ x.index = 0}}

InitConc ==
    /\ conc0 \in SyncedStores(MaxBase)
    /\ engine = conc0.engine
    /\ kernel = conc0.kernel
    /\ chainExists = TRUE
    /\ prerouting = <<[src |-> UPF_SERVICE_UE_SUBNET, target |-> "UPF"]>>
    /\ mmStop = FALSE
    /\ pc = "serving"
    /\ slept = 0
    /\ lastOp = NoOp
    /\ wire = <<>>
    /\ sent = <<>>
    /\ before = NoSnapshot
    /\ thr \in {f \in [Threads -> [pc : {"call"},
                                   match : {m \in Matches : ValidMatch(m)}]] :
                   \A a, b \in Threads : a # b => f[a].match.index # f[b].match.index}
    /\ admitted = <<>>
    /\ AgentIdle

\* thread t: lines 91-101 of add_matchmap
ConcEngineWrite(t, srv) ==
    /\ thr[t].pc = "call"
    /\ srv \in ServerFor(engine, "matchmapinsert", upf_service_match(thr[t].match))
    /\ \E e \in {add_engine_write(thr[t].match, srv, engine)} :
        /\ engine' = e.engine
        /\ wire' = e.cmds
        /\ thr' = [thr EXCEPT ![t].pc = IF e.exc = "none" THEN "written" ELSE "raised"]
    /\ admitted' = Append(admitted, t)
    /\ UNCHANGED <<loopVars, delivered, kernel, chainExists, prerouting, mmStop, pc, slept, lastOp, sent,
                   before, conc0>>

\* thread t: lines 103-106 of add_matchmap
ConcKernelInsert(t) ==
    /\ thr[t].pc = "written"
    /\ \E k \in {add_kernel_insert(thr[t].match, kernel)} :
        /\ kernel' = k.kernel
        /\ thr' = [thr EXCEPT ![t].pc = IF k.raised = "none" THEN "done" ELSE "raised"]
    /\ UNCHANGED <<loopVars, delivered, engine, chainExists, prerouting, mmStop, pc, slept, lastOp, wire,
                   sent, before, admitted, conc0>>

ConcWrite == \E t \in Threads, srv \in Servers : ConcEngineWrite(t, srv)

ConcInsert == \E t \in Threads : ConcKernelInsert(t)

NextConc == ConcWrite \/ ConcInsert

SpecConc == InitConc /\ [][NextConc]_vars

----------------------------------------------------------------------------
(* handlers/click.py, line by line.  A line is the sequence of its fields: *)
(* the banner is one field, a status line "<code> <text>" is the code and   *)
(* the text, "DATA <n>" is the word and the number; readline() at the end   *)
(* of the stream returns the empty line.                                    *)

MaxLines == 3      \* most lines the server sends on one connection
MaxPayload == 2    \* most payload units the server sends after its lines

\* int() of the strings the server sends as numbers
int ==
    ("200" :> 200) @@ ("520" :> 520) @@ ("0" :> 0) @@ ("1" :> 1) @@ ("2" :> 2)
      @@ ("3" :> 3)

\* the lines a server may send: the banner, the banner of another protocol
\* version, status lines, DATA lines, an informational line
ClickLines ==
    {<<BANNER>>, <<"Click::ControlSocket/1.1\n">>, <<"200", "OK">>,
     <<"520", "No such handler">>, <<"DATA", "1">>, <<"note">>}

PayloadUnits == {"u"}

\* what the server does on one connection: refuse it, or send these lines and
\* then this payload, and close
ClickScripts ==
    [connect : BOOLEAN, lines : SeqsUpTo(ClickLines, MaxLines),
     payload : SeqsUpTo(PayloadUnits, MaxPayload)]

\* f_hand.readline(): the next line, the empty line at the end of the stream
readline(s) == IF s.rest = <<>> THEN <<>> ELSE Head(s.rest)
AfterRead(s) == IF s.rest = <<>> THEN <<>> ELSE Tail(s.rest)

\* f_hand.read(length): at most length units, fewer when the stream ends
read(s, length) == SubSeq(s.payload, 1, IF length < Len(s.payload) THEN length
                                         ELSE Len(s.payload))

\* a banner check that accepts any first line
BannerOkAny(line) == TRUE

\* line != "Click::ControlSocket/1.3\n"
BannerOk(line) == line = <<BANNER>>

\* re.match('([0-9]{3}) (.*)', line)
re_match(line) == Len(line) = 2 /\ line[1] \in {"200", "520"}

\* socket.socket() for a call of write_handler ("write") or read_handler ("read")
NewSock(op, handler, script) ==
    [NoSock EXCEPT !.pc = "connect", !.op = op, !.handler = handler,
                   !.connect = script.connect, !.rest = script.lines,
                   !.payload = script.payload]

ClickUnchanged ==
    UNCHANGED <<engine, kernel, chainExists, prerouting, mmStop, pc, slept, lastOp,
                wire, sent, before, thr, admitted, conc0, delivered, mainPc,
                agentStop, helloPc, pollPc, inflight, sending>>

\* sock.connect((host, port))
ClickConnect ==
    /\ sock.pc = "connect"
    /\ sock' = IF sock.connect THEN [sock EXCEPT !.pc = "banner"]
               ELSE [sock EXCEPT !.pc = "done", !.raised = "OSError"]
    /\ ClickUnchanged

\* the banner line, its check, and the command line
ClickBanner ==
    /\ sock.pc = "banner"
    /\ LET line == readline(sock)
           s == [sock EXCEPT !.rest = AfterRead(sock), !.line = line, !.first = line]
       IN  sock' = IF ~BannerOk(line)
                   THEN [s EXCEPT !.pc = "done", !.raised = "ValueError"]
                   ELSE [s EXCEPT !.pc = "status",
                                  !.cmds = <<<<sock.op, sock.handler>>>>]
    /\ ClickUnchanged

\* one readline() of the search for the status line: the one before the loop
\* or one inside it.  At the end of the stream the line is empty, does not
\* match, and the loop reads again (turns: parity of the reads made there).
ClickStatusLine ==
    /\ sock.pc = "status"
    /\ LET line == readline(sock)
           s == [sock EXCEPT !.rest = AfterRead(sock), !.line = line,
                             !.turns = IF sock.rest = <<>> THEN (sock.turns + 1) % 2
                                       ELSE sock.turns]
       IN  sock' = IF ~re_match(line) THEN s
                   ELSE IF sock.op = "write"
                   THEN [s EXCEPT !.pc = "done", !.status = int[line[1]],
                                  !.data = <<line[2]>>]
                   ELSE IF int[line[1]] = 200
                   THEN [s EXCEPT !.pc = "data", !.status = 200]
                   ELSE [s EXCEPT !.pc = "done", !.status = int[line[1]],
                                  !.data = line]
    /\ ClickUnchanged

\* read_handler after a status 200: the DATA line and the payload
ClickData ==
    /\ sock.pc = "data"
    /\ LET line == readline(sock)
           s == [sock EXCEPT !.rest = AfterRead(sock), !.line = line, !.after = 1]
       IN  sock' = IF Len(line) < 2
                   THEN [s EXCEPT !.pc = "done", !.raised = "IndexError"]
                   ELSE IF line[2] \notin DOMAIN int
                   THEN [s EXCEPT !.pc = "done", !.raised = "ValueError"]
                   ELSE [s EXCEPT !.pc = "done", !.data = read(s, int[line[2]]),
                                  !.payload = SubSeq(s.payload, Len(read(s, int[line[2]])) + 1,
                                                     Len(s.payload))]
    /\ ClickUnchanged

\* one step of the call
ClickStep == ClickConnect \/ ClickBanner \/ ClickStatusLine \/ ClickData

\* the agent constructed, nothing received yet, the stores empty
Constructed ==
    /\ engine = <<>>
    /\ kernel = <<>>
    /\ chainExists = TRUE
    /\ prerouting = <<[src |-> UPF_SERVICE_UE_SUBNET, target |-> "UPF"]>>
    /\ mmStop = FALSE
    /\ pc = "serving"
    /\ slept = 0
    /\ lastOp = NoOp
    /\ wire = <<>>
    /\ sent = <<>>
    /\ before = NoSnapshot
    /\ thr = NoThreads
    /\ admitted = <<>>
    /\ conc0 = NoSnapshot
    /\ delivered = NoMessage
    /\ mainPc = "run_forever"
    /\ agentStop = FALSE
    /\ inflight = <<>>
    /\ sending = {}

\* one call of write_handler or read_handler against any server
InitClick ==
    /\ Constructed
    /\ helloPc = "off"
    /\ pollPc = "off"
    /\ sock \in {NewSock(op, "uemap", script) : op \in {"write", "read"},
                                                  script \in ClickScripts}

NextClick == ClickConnect \/ ClickBanner \/ ClickStatusLine \/ ClickData

SpecClick == InitClick /\ [][NextClick]_vars

\* the thread that runs the call is scheduled as long as it can take a step
SpecClickLive == SpecClick /\ WF_vars(ClickStep)

----------------------------------------------------------------------------
(* The running agent: main() in its connection loop, delivering inbound     *)
(* messages to the handlers on its own thread, and the two threads started  *)
(* by _init_periodic_tasks.  A handler is its steps here: first store       *)
(* write, second store write, reply.                                        *)

MaxServing == 1    \* longest match table while the threads are observed
MaxInflight == 2   \* most handlers ever started and not yet returned

\* what Click does when the poller reads uemap: refuse the connection; answer
\* 200 with one payload unit; answer 520; send the banner and close
PollScripts ==
    {[connect |-> FALSE, lines |-> <<>>, payload |-> <<>>],
     [connect |-> TRUE, lines |-> <<<<BANNER>>, <<"200", "OK">>, <<"DATA", "1">>>>,
      payload |-> <<"u">>],
     [connect |-> TRUE, lines |-> <<<<BANNER>>, <<"520", "No such handler">>>>,
      payload |-> <<>>],
     [connect |-> TRUE, lines |-> <<<<BANNER>>>>, payload |-> <<>>]}

\* what Click does when a handler writes: carry the write out, or refuse
AgentServers == {OkServer, [connect |-> FALSE, banner |-> BANNER, status |-> 520]}

\* the messages the manager sends while the threads are observed
AgentMessages ==
    {[type |-> PT_MATCH_ADD, match |-> m, index |-> m.index] :
        m \in {x \in Matches : ValidMatch(x) /\ x.index = 0}}
    \cup {[type |-> PT_MATCH_DELETE, match |-> CHOOSE m \in Matches : TRUE,
            index |-> i] : i \in {-1, 0}}

agentOther ==
    <<chainExists, prerouting, lastOp, wire, sent, before, thr, admitted, conc0,
      delivered>>

(* _send_periodic_hello *)

\* while not self._stop
HelloCheck ==
    /\ helloPc = "check"
    /\ helloPc' = IF agentStop THEN "exit" ELSE "send"
    /\ UNCHANGED <<engine, kernel, mmStop, pc, slept, mainPc, agentStop, pollPc,
                   sock, inflight, sending, agentOther>>

\* send_hello -> send_message -> self.send: raises at once when there is no
\* connection (except: log), else the thread is inside send
HelloSend ==
    /\ helloPc = "send"
    /\ IF mainPc = "connected" /\ pc = "serving"
       THEN helloPc' = "sending" /\ sending' = sending \cup {"hello"}
       ELSE helloPc' = "sleep" /\ UNCHANGED sending
    /\ UNCHANGED <<engine, kernel, mmStop, pc, slept, mainPc, agentStop, pollPc,
                   sock, inflight, agentOther>>

\* self.send returned or raised: finally time.sleep(self.usm_every)
HelloSent ==
    /\ helloPc = "sending"
    /\ helloPc' = "sleep"
    /\ sending' = sending \ {"hello"}
    /\ UNCHANGED <<engine, kernel, mmStop, pc, slept, mainPc, agentStop, pollPc,
                   sock, inflight, agentOther>>

HelloWake ==
    /\ helloPc = "sleep"
    /\ helloPc' = "check"
    /\ UNCHANGED <<engine, kernel, mmStop, pc, slept, mainPc, agentStop, pollPc,
                   sock, inflight, sending, agentOther>>

HelloStep == HelloCheck \/ HelloSend \/ HelloSent \/ HelloWake

(* _uemap_poller *)

PollCheck ==
    /\ pollPc = "check"
    /\ pollPc' = IF agentStop THEN "exit" ELSE "poll"
    /\ UNCHANGED <<engine, kernel, mmStop, pc, slept, mainPc, agentStop, helloPc,
                   sock, inflight, sending, agentOther>>

\* get_uemap calls read_handler(handler="uemap")
PollCall ==
    /\ pollPc = "poll"
    /\ \E script \in PollScripts : sock' = NewSock("read", "uemap", script)
    /\ pollPc' = "reading"
    /\ UNCHANGED <<engine, kernel, mmStop, pc, slept, mainPc, agentStop, helloPc,
                   inflight, sending, agentOther>>

\* read_handler is over: it raised, or get_uemap raises on a status other
\* than 200 (except: log; finally: sleep), or the map goes to send_ue_map
PollReturn ==
    /\ pollPc = "reading"
    /\ sock.pc = "done"
    /\ pollPc' = IF sock.raised # "none" \/ sock.status # 200 THEN "sleep" ELSE "send"
    /\ sock' = NoSock
    /\ UNCHANGED <<engine, kernel, mmStop, pc, slept, mainPc, agentStop, helloPc,
                   inflight, sending, agentOther>>

PollSend ==
    /\ pollPc = "send"
    /\ IF mainPc = "connected" /\ pc = "serving"
       THEN pollPc' = "sending" /\ sending' = sending \cup {"ue_map"}
       ELSE pollPc' = "sleep" /\ UNCHANGED sending
    /\ UNCHANGED <<engine, kernel, mmStop, pc, slept, mainPc, agentStop, helloPc,
                   sock, inflight, agentOther>>

PollSent ==
    /\ pollPc = "sending"
    /\ pollPc' = "sleep"
    /\ sending' = sending \ {"ue_map"}
    /\ UNCHANGED <<engine, kernel, mmStop, pc, slept, mainPc, agentStop, helloPc,
                   sock, inflight, agentOther>>

PollWake ==
    /\ pollPc = "sleep"
    /\ pollPc' = "check"
    /\ UNCHANGED <<engine, kernel, mmStop, pc, slept, mainPc, agentStop, helloPc,
                   sock, inflight, sending, agentOther>>

PollStep ==
    PollCheck \/ PollCall \/ ClickStep \/ PollReturn \/ PollSend \/ PollSent
      \/ PollWake

(* main(): the connection loop *)

\* main() gives up when run_forever() returns
AfterRunForeverExit == "exit"

\* after run_forever() returned: log, time.sleep(agent.usm_every), loop
AfterRunForever == "sleep"

\* agent.run_forever(): the connection is established, or the attempt fails
\* and run_forever returns
MainRunForever ==
    /\ pc = "serving"
    /\ mainPc = "run_forever"
    /\ \/ mainPc' = "connected" /\ UNCHANGED slept
       \/ mainPc' = AfterRunForever /\ slept' = UPF_SERVICE_MANAGER_EVERY
    /\ UNCHANGED <<engine, kernel, mmStop, pc, agentStop, helloPc, pollPc, sock,
                   inflight, sending, agentOther>>

\* the connection ends and run_forever returns (between two callbacks: the
\* handlers run on this thread)
MainConnectionEnds ==
    /\ pc = "serving"
    /\ mainPc = "connected"
    /\ inflight = <<>>
    /\ mainPc' = AfterRunForever
    /\ slept' = UPF_SERVICE_MANAGER_EVERY
    /\ UNCHANGED <<engine, kernel, mmStop, pc, agentStop, helloPc, pollPc, sock,
                   inflight, sending, agentOther>>

\* time.sleep is over: while not stop
MainWake ==
    /\ pc = "serving"
    /\ mainPc = "sleep"
    /\ mainPc' = "run_forever"
    /\ slept' = 0
    /\ UNCHANGED <<engine, kernel, mmStop, pc, agentStop, helloPc, pollPc, sock,
                   inflight, sending, agentOther>>

(* inbound messages *)

\* a message is handed to a handler whatever the earlier ones are doing
CanDeliverAlways == TRUE

\* run_forever calls on_message for one message and reads the next one when
\* the call returned
CanDeliver == inflight = <<>>

AgentReceive ==
    /\ pc = "serving"
    /\ mainPc = "connected"
    /\ CanDeliver
    /\ Len(inflight) < MaxInflight
    /\ \E msg \in AgentMessages :
          inflight' = Append(inflight, [type |-> msg.type, match |-> msg.match,
                                        index |-> msg.index, step |-> "first"])
    /\ UNCHANGED <<engine, kernel, mmStop, pc, slept, mainPc, agentStop, helloPc,
                   pollPc, sock, sending, agentOther>>

\* add_matchmap: the matchmapinsert write; delete_matchmap: the kernel
\* delete_rule / flush
AgentFirstWrite(i, srv) ==
    LET h == inflight[i] IN
    /\ h.step = "first"
    /\ IF h.type = PT_MATCH_ADD
       THEN /\ srv \in ServerFor(engine, "matchmapinsert", upf_service_match(h.match))
            /\ \E e \in {add_engine_write(h.match, srv, engine)} :
                 /\ Len(e.engine) <= MaxServing
                 /\ engine' = e.engine
                 /\ inflight' = [inflight EXCEPT ![i].step =
                                     IF e.exc = "none" THEN "second" ELSE "reply"]
            /\ UNCHANGED kernel
       ELSE /\ srv = OkServer
            /\ IF h.index # -1 /\ ~PyInRange(kernel, h.index)
               THEN /\ inflight' = [inflight EXCEPT ![i].step = "reply"]
                    /\ UNCHANGED kernel
               ELSE /\ kernel' = IF h.index # -1
                                 THEN delete_rule(kernel, PyIndex(kernel, h.index))
                                 ELSE <<>>
                    /\ inflight' = [inflight EXCEPT ![i].step = "second"]
            /\ UNCHANGED engine
    /\ UNCHANGED <<mmStop, pc, slept, mainPc, agentStop, helloPc, pollPc, sock,
                   sending, agentOther>>

\* add_matchmap: the kernel insert; delete_matchmap: the matchmapdelete /
\* matchmapclear write
AgentSecondWrite(i, srv) ==
    LET h == inflight[i]
        handler_name == IF h.index # -1 THEN "matchmapdelete" ELSE "matchmapclear"
    IN
    /\ h.step = "second"
    /\ IF h.type = PT_MATCH_ADD
       THEN /\ srv = OkServer
            /\ kernel' = add_kernel_insert(h.match, kernel).kernel
            /\ UNCHANGED engine
       ELSE /\ srv \in ServerFor(engine, handler_name, h.index)
            /\ engine' = ClickAfter(engine, write_handler(srv, handler_name, h.index),
                                    handler_name, h.index)
            /\ UNCHANGED kernel
    /\ inflight' = [inflight EXCEPT ![i].step = "reply"]
    /\ UNCHANGED <<mmStop, pc, slept, mainPc, agentStop, helloPc, pollPc, sock,
                   sending, agentOther>>

\* finally: send_match_action_result -> self.send
AgentReply(i) ==
    /\ inflight[i].step = "reply"
    /\ inflight' = [inflight EXCEPT ![i].step = "replying"]
    /\ sending' = sending \cup {"reply"}
    /\ UNCHANGED <<engine, kernel, mmStop, pc, slept, mainPc, agentStop, helloPc,
                   pollPc, sock, agentOther>>

\* self.send is over and the handler returns
AgentReplied(i) ==
    /\ inflight[i].step = "replying"
    /\ inflight' = RemoveAt(inflight, i - 1)
    /\ sending' = sending \ {"reply"}
    /\ UNCHANGED <<engine, kernel, mmStop, pc, slept, mainPc, agentStop, helloPc,
                   pollPc, sock, agentOther>>

HandlerFirst ==
    \E i \in 1..Len(inflight), srv \in AgentServers : AgentFirstWrite(i, srv)

HandlerSecond ==
    \E i \in 1..Len(inflight), srv \in AgentServers : AgentSecondWrite(i, srv)

HandlerReply == \E i \in 1..Len(inflight) : AgentReply(i)

HandlerReplied == \E i \in 1..Len(inflight) : AgentReplied(i)

HandlerStep == HandlerFirst \/ HandlerSecond \/ HandlerReply \/ HandlerReplied

\* main() has constructed the agent: start() is over, both threads run
InitServing ==
    /\ Constructed
    /\ helloPc = "check"
    /\ pollPc = "check"
    /\ sock = NoSock

NextServing ==
    \/ HelloStep
    \/ PollStep
    \/ MainRunForever
    \/ MainConnectionEnds
    \/ MainWake
    \/ MainInterrupt
    \/ AgentReceive
    \/ HandlerStep

SpecServing == InitServing /\ [][NextServing]_vars

\* Every thread is scheduled as long as it can take a step, and a sleep ends.
\* Nothing is assumed of the manager, of Click, or of the interrupt.
SpecServingLive ==
    /\ SpecServing
    /\ WF_vars(HelloStep)
    /\ WF_vars(PollStep)
    /\ WF_vars(MainWake)
    /\ WF_vars(HandlerStep)

----------------------------------------------------------------------------
(* Properties *)

\* the selector a kernel rule matches on, in the form Click stores it
KernelSelector(rule) ==
    <<rule.protocol, rule.dst[1], rule.dst[2],
      IF rule.matches = <<>> THEN 0 ELSE rule.matches[1].dport>>

\* the two stores have the same length and the same selector at every position
\* (the Click encoding carries no action, so there is none to compare)
InSync(eng, kern) ==
    /\ Len(eng) = Len(kern)
    /\ \A i \in 1..Len(eng) : eng[i] = KernelSelector(kern[i])

\* the write to Click does not succeed: refused, wrong banner, or status not 200
WriteFails(srv) == ~srv.connect \/ srv.banner # BANNER \/ srv.status # 200

\* this step handled a message that called add_matchmap / delete_matchmap
AddStep == pc = "serving" /\ pc' = "serving" /\ lastOp'.op = "add"
DeleteStep == pc = "serving" /\ pc' = "serving" /\ lastOp'.op = "delete"

\* C1: every addMatch of a valid match and every deleteMatch of -1 or of a
\* valid index, called with the two stores in sync, leaves them in sync: same
\* length and same match at every position.
C1_SyncPreserved ==
    [][((AddStep \/ DeleteStep) /\ lastOp'.valid /\ InSync(engine, kernel))
          => InSync(engine', kernel')]_vars

\* C1, restricted to calls that return normally: it fails as well, because
\* delete_rule removes the first rule equal to the one at the index (chain
\* [A, B, A], deleteMatch(2): the kernel keeps [B, A], Click keeps [A, B]).
C1_SyncPreservedWhenCallsSucceed ==
    [][((AddStep \/ DeleteStep) /\ lastOp'.valid /\ lastOp'.exc = "none"
          /\ InSync(engine, kernel))
          => InSync(engine', kernel')]_vars

\* C2: when the matchmapinsert write fails (raises, or status other than 200),
\* addMatch fails and the kernel chain is unchanged; and a kernel rule is only
\* ever inserted by an add whose write put the same selector at the same
\* position of the Click table.
C2_WriteFailureBlocksKernel ==
    lastOp.op = "add" =>
        /\ WriteFails(lastOp.srv) => (lastOp.exc # "none" /\ kernel = before.kernel)
        /\ kernel # before.kernel =>
              /\ ~WriteFails(lastOp.srv)
              /\ engine = InsertAt(before.engine, lastOp.index,
                                   KernelSelector(kernel[lastOp.index + 1]))

C2_Witness ==
    /\ lastOp.op = "add"
    /\ lastOp.srv.connect /\ lastOp.srv.banner = BANNER /\ lastOp.srv.status = 520
    /\ lastOp.exc = "Exception"
    /\ Len(kernel) = 1
    /\ kernel = before.kernel

\* C3: deleteMatch(index) with an index other than -1 at which the chain
\* holds no rule (outside 0..length-1) fails, removes no kernel rule and sends
\* no matchmapdelete.
C3_BadIndexRejected ==
    lastOp.op = "delete" /\ lastOp.index # -1
        /\ ~(lastOp.index >= 0 /\ lastOp.index < Len(before.kernel))
    => /\ lastOp.exc # "none"
       /\ kernel = before.kernel
       /\ \A i \in 1..Len(wire) : wire[i][2] # "matchmapdelete"

\* C4: deleteMatch(-1) that returns leaves both stores empty, whatever they
\* held; called again (Click answering) it returns again and leaves them empty.
C4_ClearIdempotent ==
    lastOp.op = "delete" /\ lastOp.index = -1 /\ lastOp.exc = "none"
    => /\ kernel = <<>>
       /\ engine = <<>>
       /\ LET again == delete_matchmap(-1, OkServer, engine, kernel)
          IN  again.exc = "none" /\ again.kernel = <<>> /\ again.engine = <<>>

C4_Witness ==
    /\ lastOp.op = "delete" /\ lastOp.index = -1 /\ lastOp.exc = "none"
    /\ Len(before.kernel) = 2
    /\ Len(before.engine) = 2
    /\ kernel = <<>>
    /\ engine = <<>>

\* C5: a successful addMatch at index i from synchronized stores, followed
\* immediately by deleteMatch(i), leaves both stores as they were before the
\* add.
C5_RoundTrip ==
    [][(DeleteStep /\ lastOp.op = "add" /\ lastOp.exc = "none"
          /\ InSync(before.engine, before.kernel)
          /\ lastOp'.index = lastOp.index)
       => (engine' = before.engine /\ kernel' = before.kernel)]_vars

\* C5, restricted to a deleteMatch(i) that returns normally: it fails as
\* well, when the chain holds a rule equal to the added one before position i.
C5_RoundTripWhenDeleteSucceeds ==
    [][(DeleteStep /\ lastOp.op = "add" /\ lastOp.exc = "none"
          /\ InSync(before.engine, before.kernel)
          /\ lastOp'.index = lastOp.index /\ lastOp'.exc = "none")
       => (engine' = before.engine /\ kernel' = before.kernel)]_vars

\* the stores after the admitted callers' calls ran one after the other
SerialOrder ==
    SerialAdd(SerialAdd(conc0, thr[admitted[1]].match), thr[admitted[2]].match)

\* C6: after two concurrent addMatch calls for distinct indices have both
\* returned, the two stores hold the matches in the same order, the order of
\* running the calls one after the other as they were admitted.
C6_ConcurrentAddsSerial ==
    (\A t \in Threads : thr[t].pc = "done")
    => /\ InSync(engine, kernel)
       /\ engine = SerialOrder.engine
       /\ kernel = SerialOrder.kernel

\* C7: unless stop() was called, start() reaches the kernel NAT
\* initialisation only after a matchmapclear write that succeeded; an attempt
\* that does not succeed (refused, wrong banner, status not 200) is followed
\* by a 5-second sleep and another attempt.
C7_StartBarrier ==
    /\ (pc \in {"init_netfilter", "serving"} /\ ~mmStop)
          => (lastOp.op = "start_clear" /\ ~WriteFails(lastOp.srv))
    /\ (lastOp.op = "start_clear" /\ WriteFails(lastOp.srv) /\ ~mmStop)
          => (pc \in {"init_click_sleep", "init_click"}
              /\ (pc = "init_click_sleep" => slept = 5))

\* C8: when start() has completed the Click match table is empty, the chain
\* UPF exists and is empty, and PREROUTING holds exactly one rule that jumps
\* to UPF, at its head, matching the UE subnet as source.
C8_NoStaleRule ==
    pc = "serving"
    => /\ engine = <<>>
       /\ chainExists
       /\ kernel = <<>>
       /\ prerouting # <<>>
       /\ prerouting[1] = [src |-> UPF_SERVICE_UE_SUBNET, target |-> "UPF"]
       /\ \A i \in 2..Len(prerouting) : prerouting[i].target # "UPF"

\* C9: while start() has not finished (Click clear, kernel chain
\* initialisation) no match_add or match_delete is dispatched: MatchMap is not
\* called, no reply is sent, and the only command sent to Click is the clear.
C9_NoDispatchBeforeStart ==
    pc \in {"init_click", "init_click_sleep", "init_netfilter"}
    => /\ lastOp.op \notin {"add", "delete"}
       /\ sent = <<>>
       /\ \A i \in 1..Len(wire) : wire[i][2] = "matchmapclear"

C9_Witness ==
    /\ pc = "serving"
    /\ lastOp.op = "add"
    /\ lastOp.exc = "none"
    /\ Len(sent) = 1
    /\ Len(kernel) = 1

\* C10: a handled match_add or match_delete sends exactly one reply: type
\* match_ok with the index when addMatch / deleteMatch succeeded, type
\* match_ko with the index when it failed.
C10_OkKoReply ==
    lastOp.op \in {"add", "delete"}
    => /\ Len(sent) = 1
       /\ sent[1].type = (IF lastOp.exc = "none" THEN PT_MATCH_OK ELSE PT_MATCH_KO)
       /\ sent[1].match_index = lastOp.index

\* the status a reply carries when handling failed
FailureStatus == 500

\* C11: whatever the payload of a match_add or match_delete, no exception
\* leaves the handler or on_message, exactly one reply is sent, and it is the
\* failure reply whenever the handling failed.
C11_FailureBecomesReply ==
    delivered.type \in {PT_MATCH_ADD, PT_MATCH_DELETE}
    => /\ delivered.exc = "none"
       /\ Len(sent) = 1
       /\ (lastOp.op = "none" \/ lastOp.exc # "none") => sent[1].status = FailureStatus

\* C12: a message whose type has no handler raises nothing, changes neither
\* store, sends no reply, and leaves the agent serving (until stop()).
C12_UnknownIgnored ==
    delivered.type \in UnknownTypes
    => /\ delivered.exc = "none"
       /\ engine = before.engine
       /\ kernel = before.kernel
       /\ sent = <<>>
       /\ wire = <<>>
       /\ ~agentStop => pc = "serving"

C12_Witness ==
    /\ delivered.type \in UnknownTypes
    /\ Len(kernel) = 1
    /\ Len(engine) = 1
    /\ sent = <<>>

\* C13: an iteration that fails does not end a periodic loop: the exception is
\* swallowed, the loop sleeps and comes back to its loop test; unless stop()
\* is called each loop comes back to its loop test again and again.
C13_LoopsKeepIterating ==
    /\ [][(helloPc \in {"send", "sending"} /\ helloPc' # helloPc)
            => helloPc' \in {"sending", "sleep"}]_vars
    /\ [][(pollPc \in {"reading", "send", "sending"} /\ pollPc' # pollPc)
            => pollPc' \in {"send", "sending", "sleep"}]_vars
    /\ []<>(helloPc = "check" \/ agentStop)
    /\ []<>(pollPc = "check" \/ agentStop)

\* C13 for the heartbeat loop alone
C13_HelloKeepsIterating ==
    /\ [][(helloPc \in {"send", "sending"} /\ helloPc' # helloPc)
            => helloPc' \in {"sending", "sleep"}]_vars
    /\ []<>(helloPc = "check" \/ agentStop)

\* C14: at no time are two callers inside send on the manager connection.
C14_SendsSerialized == Cardinality(sending) <= 1

\* the attempt to connect failed, or the connection ended
Disconnects ==
    /\ pc' = "serving"
    /\ mainPc \in {"run_forever", "connected"}
    /\ mainPc' \notin {"run_forever", "connected"}

\* C18: until stop, when a connection attempt fails or the connection ends
\* the supervisor sleeps the heartbeat interval, and after the sleep it
\* attempts to connect again; it never leaves this cycle by itself.
C18_ReconnectForever ==
    /\ [][Disconnects => (mainPc' = "sleep" /\ slept' = UPF_SERVICE_MANAGER_EVERY)]_vars
    /\ [][(mainPc = "sleep" /\ mainPc' # "sleep") => mainPc' = "run_forever"]_vars
    /\ [](mainPc \in {"run_forever", "connected", "sleep"})
    /\ [](mainPc = "sleep" => <>(mainPc = "run_forever" \/ pc = "stopped"))

C18_Witness ==
    /\ pc = "serving"
    /\ mainPc = "sleep"
    /\ slept = UPF_SERVICE_MANAGER_EVERY
    /\ helloPc = "sleep"
    /\ ~agentStop

\* handlers that have made their first store write and not yet their last
MidMutation == {i \in 1..Len(inflight) : inflight[i].step = "second"}

\* C19: with the handlers and both periodic loops running, no two mutations
\* are at the same time between their first and their last store write.
C19_MutationsExclusive == Cardinality(MidMutation) <= 1

C19_Witness ==
    /\ Cardinality(MidMutation) = 1
    /\ helloPc = "sending"
    /\ pollPc = "reading"
    /\ Len(engine) = 1
    /\ kernel = <<>>

\* C20: once stop() has been called the heartbeat loop and the session-poll
\* loop end: eventually neither is running.
C20_StopEndsLoops == agentStop ~> (helloPc = "exit" /\ pollPc = "exit")

\* C20 for the heartbeat loop alone
C20_StopEndsHello == agentStop ~> (helloPc = "exit")

\* C21: a failure reply carries -1 when the handling failed before the index
\* was read from the payload (no match / match_index field), and the
\* requested index when it failed after the index was read.
C21_FailureIndex ==
    (delivered.type \in {PT_MATCH_ADD, PT_MATCH_DELETE} /\ Len(sent) = 1
        /\ sent[1].status = FailureStatus)
    => IF lastOp.op = "none"
       THEN sent[1].match_index = -1
       ELSE lastOp.exc # "none" /\ sent[1].match_index = lastOp.index

C21_Witness ==
    /\ delivered.type = PT_MATCH_ADD
    /\ lastOp.op = "none"
    /\ Len(sent) = 1
    /\ sent[1].status = FailureStatus
    /\ sent[1].match_index = -1
    /\ Len(kernel) = 1

\* a failure reply sent after the index was read: it names that index
C21_WitnessAfterRead ==
    /\ delivered.type = PT_MATCH_DELETE
    /\ lastOp.op = "delete"
    /\ lastOp.exc = "IndexError"
    /\ Len(sent) = 1
    /\ sent[1].status = FailureStatus
    /\ sent[1].match_index = 2

\* C22: when addMatch or deleteMatch raises, whatever the cause, the Click
\* match table and the kernel chain hold what they held before the call.
C22_FailureHasNoEffect ==
    (lastOp.op \in {"add", "delete"} /\ lastOp.exc # "none")
    => (engine = before.engine /\ kernel = before.kernel)

\* C22 for addMatch failing at its Click write alone
C22_FailedWriteOfAdd ==
    (lastOp.op = "add" /\ WriteFails(lastOp.srv))
    => (lastOp.exc # "none" /\ engine = before.engine /\ kernel = before.kernel)

\* the call is over: it returned or raised
ClickDone == sock.pc = "done"

\* C15: write_handler and read_handler terminate: when the server's lines run
\* out without a status line the call ends (with an error), it does not go on
\* reading.
C15_CallTerminates == <>ClickDone

\* C16: when the first line received is not exactly the banner, the call
\* raises ValueError and has sent no command; a command is only sent after
\* the exact banner.
C16_BannerGate ==
    /\ (sock.pc \in {"status", "data", "done"} /\ sock.connect /\ sock.first # <<BANNER>>)
          => (sock.pc = "done" /\ sock.raised = "ValueError" /\ sock.cmds = <<>>)
    /\ sock.cmds # <<>> => sock.first = <<BANNER>>

C16_Witness ==
    /\ sock.pc = "done"
    /\ sock.op = "read"
    /\ sock.first = <<"Click::ControlSocket/1.1\n">>
    /\ sock.raised = "ValueError"
    /\ sock.rest # <<>>

\* C17: read_handler returns by its first status line: for 200, it reads
\* exactly one further line and returns 200 with the declared number of
\* payload units; for another code it returns the code with the text that
\* follows the code on the status line, as write_handler does.  (The payload
\* has the declared length when the server sent that much before closing.)
C17_ReadResult ==
    (sock.pc = "done" /\ sock.op = "read" /\ sock.raised = "none")
    => IF sock.status = 200
       THEN /\ sock.after = 1
            /\ int[sock.line[2]] <= Len(sock.data) + Len(sock.payload)
                  => Len(sock.data) = int[sock.line[2]]
       ELSE /\ sock.data = <<sock.line[2]>>

\* C17 for the status 200 alone, and write_handler's result
C17_ReadResult200 ==
    /\ (sock.pc = "done" /\ sock.op = "read" /\ sock.raised = "none"
          /\ sock.status = 200)
       => /\ sock.after = 1
          /\ int[sock.line[2]] <= Len(sock.data) + Len(sock.payload)
                => Len(sock.data) = int[sock.line[2]]
    /\ (sock.pc = "done" /\ sock.op = "write" /\ sock.raised = "none")
       => sock.data = <<sock.line[2]>>

====
